---- MODULE Spec2Model ----
(***************************************************************************)
(* ExpenseManager (src/splitter/spliter.py, duplicated verbatim in         *)
(* src/spliter/spliter.py): an in-memory accumulator of shared expenses.   *)
(*                                                                         *)
(* A dict is a function whose DOMAIN is the dict's key set; a defaultdict  *)
(* reads a missing key as 0 (and, when subscripted, inserts it).           *)
(* Money is counted in a unit in which every share amount/len(participants)*)
(* of the amounts drawn here is a whole number, so the float division of   *)
(* line 48 and the float sums are exact and are modelled on Int.           *)
(* The insertion order of dict keys is not modelled, so participant lists  *)
(* are drawn in one canonical order (lists naming a person twice included).*)
(***************************************************************************)
EXTENDS Integers, Sequences, FiniteSets, TLC

VARIABLES
    balances,      \* self.balances: person -> net balance
    transactions,  \* self.transactions: person -> (payer -> amount owed)
    raised,        \* exception the last call surfaced to the caller ("none" if it returned)
    calls,         \* number of add_expense calls made so far
    last,          \* history: the last operation and its arguments
    before,        \* history: balances/transactions at entry of the last operation
    balSnap,       \* the dict a caller holds from get_balances()
    txSnap,        \* the dict a caller holds from get_transactions()
    steps,         \* number of snapshot operations made so far
    twin,          \* a second ExpenseManager, fed the same calls with other descriptions
    log            \* history: the add_expense calls that returned, in order

vars == <<balances, transactions, raised, calls, last, before, balSnap, txSnap, steps,
          twin, log>>

(* ------------------------------ bounds -------------------------------- *)
MaxExpenses == 2
MaxParts == 2
MaxSnapExpenses == 1
MaxSnapSteps == 3

PersonSeq == <<"A", "B", "C">>
Persons == {PersonSeq[i] : i \in DOMAIN PersonSeq}

RECURSIVE Gcd(_, _)
Gcd(a, b) == IF b = 0 THEN a ELSE Gcd(b, a % b)

RECURSIVE LcmUpTo(_)
LcmUpTo(n) == IF n <= 1 THEN 1 ELSE (LcmUpTo(n - 1) * n) \div Gcd(LcmUpTo(n - 1), n)

\* the longest participant list drawn
MaxLen == IF MaxParts > Len(PersonSeq) THEN MaxParts ELSE Len(PersonSeq)

\* every amount is a multiple of Unit, which every list length 1..MaxLen divides
Unit == LcmUpTo(MaxLen)
Amounts == {Unit}
NonPositiveAmounts == {0, 0 - Unit}

NoItem == "<None>"
Items == {NoItem, "", "Diesel"}

\* participant lists, persons in PersonSeq order: every list of distinct persons,
\* and every list of length 0..MaxParts that may name a person more than once
IndexLists == UNION {[1..n -> DOMAIN PersonSeq] : n \in 0..MaxLen}
ParticipantLists ==
    {[i \in DOMAIN s |-> PersonSeq[s[i]]] :
        s \in {t \in IndexLists :
                 \/ \A i \in DOMAIN t : i = 1 \/ t[i - 1] < t[i]
                 \/ Len(t) <= MaxParts /\ \A i \in DOMAIN t : i = 1 \/ t[i - 1] <= t[i]}}
NonEmptyLists == {s \in ParticipantLists : Len(s) > 0}

(* ------------------------------ dicts --------------------------------- *)
EmptyMap == [x \in {} |-> 0]

\* defaultdict(float).__getitem__ as used by "+=": a missing key reads 0
Get(d, k) == IF k \in DOMAIN d THEN d[k] ELSE 0

\* d[k] = v
Put(d, k, v) == [x \in DOMAIN d \cup {k} |-> IF x = k THEN v ELSE d[x]]

\* del d[k]
Del(d, k) == [x \in DOMAIN d \ {k} |-> d[x]]

\* self.transactions[person]: a missing person reads (and becomes) an empty inner dict
Inner(tx, person) == IF person \in DOMAIN tx THEN tx[person] ELSE EmptyMap

\* read of transactions[a][b] that inserts nothing: absent entries count as 0
Owed(tx, a, b) == Get(Inner(tx, a), b)

\* bool(item) of "if item:"
Truthy(item) == item # NoItem /\ item # ""

(* ---------------------------- add_expense ------------------------------ *)
split_amount(amount, participants) == amount \div Len(participants)

CreditPayer(bal, payer, amount) == Put(bal, payer, Get(bal, payer) + amount)

DebitPersonPayerKept(bal, person, payer, split) ==
    Put(bal, person, Get(bal, person) - split)

DebitPerson(bal, person, payer, split) ==
    LET b1 == Put(bal, person, Get(bal, person) - split)
    IN  Put(b1, payer, Get(b1, payer) - split)

AddDebt(tx, person, payer, split) ==
    Put(tx, person, Put(Inner(tx, person), payer, Owed(tx, person, payer) + split))

RecordDebtSwapped(tx, person, payer, split, item) ==
    IF Truthy(item) THEN AddDebt(tx, payer, person, split)
                    ELSE AddDebt(tx, payer, person, split)

RecordDebtItemOnly(tx, person, payer, split, item) ==
    IF Truthy(item) THEN AddDebt(tx, person, payer, split)
                    ELSE tx

RecordDebt(tx, person, payer, split, item) ==
    IF Truthy(item) THEN AddDebt(tx, person, payer, split)
                    ELSE AddDebt(tx, person, payer, split)

LoopBodyNoPayerCheck(st, person, payer, split, item) ==
    [balances |-> DebitPerson(st.balances, person, payer, split),
     transactions |-> RecordDebt(st.transactions, person, payer, split, item)]

LoopBody(st, person, payer, split, item) ==
    IF person # payer
    THEN [balances |-> DebitPerson(st.balances, person, payer, split),
          transactions |-> RecordDebt(st.transactions, person, payer, split, item)]
    ELSE st

RECURSIVE ForParticipants(_, _, _, _, _, _)
ForParticipants(st, participants, i, payer, split, item) ==
    IF i > Len(participants) THEN st
    ELSE ForParticipants(LoopBody(st, participants[i], payer, split, item),
                         participants, i + 1, payer, split, item)

AddExpenseResultCreditFirst(bal, tx, payer, amount, participants, item) ==
    IF Len(participants) = 0
    THEN [balances |-> CreditPayer(bal, payer, amount), transactions |-> tx,
          raised |-> "ZeroDivisionError"]
    ELSE LET st == ForParticipants(
                     [balances |-> CreditPayer(bal, payer, amount), transactions |-> tx],
                     participants, 1, payer, split_amount(amount, participants), item)
         IN  [balances |-> st.balances, transactions |-> st.transactions, raised |-> "none"]

\* the whole method: what it leaves in self.balances and self.transactions, and
\* what it raises.  len(participants) = 0 raises at line 48, before any write.
AddExpenseResult(bal, tx, payer, amount, participants, item) ==
    IF Len(participants) = 0
    THEN [balances |-> bal, transactions |-> tx, raised |-> "ZeroDivisionError"]
    ELSE LET st == ForParticipants(
                     [balances |-> CreditPayer(bal, payer, amount), transactions |-> tx],
                     participants, 1, payer, split_amount(amount, participants), item)
         IN  [balances |-> st.balances, transactions |-> st.transactions, raised |-> "none"]

NoArgs == [payer |-> "", amount |-> 0, participants |-> <<>>]

Fresh == [balances |-> EmptyMap, transactions |-> EmptyMap]

\* __init__: two empty defaultdicts
Init ==
    /\ balances = EmptyMap
    /\ transactions = EmptyMap
    /\ raised = "none"
    /\ calls = 0
    /\ last = [op |-> "__init__"] @@ NoArgs
    /\ before = Fresh
    /\ balSnap = [held |-> FALSE, dict |-> EmptyMap]
    /\ txSnap = [held |-> FALSE, dict |-> EmptyMap]
    /\ steps = 0
    /\ twin = Fresh
    /\ log = <<>>

\* a description of the other kind for "if item:" (given <-> left out)
OtherItem(item) == IF Truthy(item) THEN NoItem ELSE "Diesel"

\* one call of add_expense on this manager, and the same call with another
\* description on the twin
add_expense(payer, amount, participants, item) ==
    \E r \in {AddExpenseResult(balances, transactions, payer, amount, participants, item)},
       t \in {AddExpenseResult(twin.balances, twin.transactions, payer, amount,
                              participants, OtherItem(item))} :
        /\ balances' = r.balances
        /\ transactions' = r.transactions
        /\ raised' = r.raised
        /\ calls' = calls + 1
        /\ last' = [op |-> "add_expense", payer |-> payer, amount |-> amount,
                    participants |-> participants]
        /\ log' = IF r.raised = "none" THEN Append(log, last') ELSE log
        /\ before' = [balances |-> balances, transactions |-> transactions]
        /\ twin' = [balances |-> t.balances, transactions |-> t.transactions]
        /\ UNCHANGED <<balSnap, txSnap, steps>>

(* ------------------------- get_balances / get_transactions ------------- *)
\* dict(self.balances): a new dict with the same keys and (immutable) float values
get_balances_value(bal) == bal

\* dict(self.transactions): a new outer dict whose values are the SAME inner
\* defaultdict objects that self.transactions holds (a shallow copy).  A reference
\* is either shared with self.transactions[of] or a dict the caller made itself.
SharedRef(person) == [shared |-> TRUE, of |-> person, val |-> EmptyMap]
OwnRef(d) == [shared |-> FALSE, of |-> "", val |-> d]

get_transactions_value(tx) == [p \in DOMAIN tx |-> SharedRef(p)]

\* the dict a reference denotes now
Deref(ref, tx) == IF ref.shared THEN tx[ref.of] ELSE ref.val

\* what the caller sees in the snapshot it holds
SnapshotView(snap, tx) == [p \in DOMAIN snap |-> Deref(snap[p], tx)]

Touch(op) ==
    /\ last' = [op |-> op] @@ NoArgs
    /\ before' = [balances |-> balances, transactions |-> transactions]
    /\ steps' = steps + 1
    /\ UNCHANGED <<calls, twin, log>>

get_balances ==
    /\ steps < MaxSnapSteps
    /\ balSnap' = [held |-> TRUE, dict |-> get_balances_value(balances)]
    /\ raised' = "none"
    /\ Touch("get_balances")
    /\ UNCHANGED <<balances, transactions, txSnap>>

get_transactions ==
    /\ steps < MaxSnapSteps
    /\ txSnap' = [held |-> TRUE, dict |-> get_transactions_value(transactions)]
    /\ raised' = "none"
    /\ Touch("get_transactions")
    /\ UNCHANGED <<balances, transactions, balSnap>>

\* what the caller may do to a returned dict
SnapshotValues == {0, Unit}

\* snapshot[p] = v on the get_balances() result
BalSnapWrite ==
    /\ steps < MaxSnapSteps /\ balSnap.held
    /\ \E p \in Persons, v \in SnapshotValues :
          balSnap' = [balSnap EXCEPT !.dict = Put(@, p, v)]
    /\ raised' = "none"
    /\ Touch("mutate_balances_snapshot")
    /\ UNCHANGED <<balances, transactions, txSnap>>

\* del snapshot[p] on the get_balances() result
BalSnapDelete ==
    /\ steps < MaxSnapSteps /\ balSnap.held
    /\ \E p \in DOMAIN balSnap.dict :
          balSnap' = [balSnap EXCEPT !.dict = Del(@, p)]
    /\ raised' = "none"
    /\ Touch("mutate_balances_snapshot")
    /\ UNCHANGED <<balances, transactions, txSnap>>

\* snapshot[p] = {} on the get_transactions() result
TxSnapWriteTop ==
    /\ steps < MaxSnapSteps /\ txSnap.held
    /\ \E p \in Persons :
          txSnap' = [txSnap EXCEPT !.dict = Put(@, p, OwnRef(EmptyMap))]
    /\ raised' = "none"
    /\ Touch("mutate_transactions_snapshot")
    /\ UNCHANGED <<balances, transactions, balSnap>>

\* del snapshot[p] on the get_transactions() result
TxSnapDeleteTop ==
    /\ steps < MaxSnapSteps /\ txSnap.held
    /\ \E p \in DOMAIN txSnap.dict :
          txSnap' = [txSnap EXCEPT !.dict = Del(@, p)]
    /\ raised' = "none"
    /\ Touch("mutate_transactions_snapshot")
    /\ UNCHANGED <<balances, transactions, balSnap>>

\* the effect of inner[q] = v through reference ref: a shared inner dict is the
\* manager's own object
WriteThrough(snap, tx, p, q, v) ==
    IF snap[p].shared
    THEN [snap |-> snap, transactions |-> Put(tx, snap[p].of, Put(tx[snap[p].of], q, v))]
    ELSE [snap |-> Put(snap, p, OwnRef(Put(snap[p].val, q, v))), transactions |-> tx]

\* snapshot[p][q] = v on the get_transactions() result
TxSnapWriteInner ==
    /\ steps < MaxSnapSteps /\ txSnap.held
    /\ \E p \in DOMAIN txSnap.dict, q \in Persons, v \in SnapshotValues :
          LET w == WriteThrough(txSnap.dict, transactions, p, q, v)
          IN  /\ txSnap' = [txSnap EXCEPT !.dict = w.snap]
              /\ transactions' = w.transactions
    /\ raised' = "none"
    /\ Touch("mutate_transactions_snapshot")
    /\ UNCHANGED <<balances, balSnap>>

\* snapshot[p][q] read on the get_transactions() result: a shared inner dict is a
\* defaultdict(float), whose __missing__ inserts 0.0; a caller's plain dict raises
TxSnapReadInner ==
    /\ steps < MaxSnapSteps /\ txSnap.held
    /\ \E p \in DOMAIN txSnap.dict, q \in Persons :
          LET ref == txSnap.dict[p]
              d == Deref(ref, transactions)
          IN  IF q \in DOMAIN d
              THEN raised' = "none" /\ UNCHANGED transactions
              ELSE IF ref.shared
                   THEN /\ raised' = "none"
                        /\ transactions' = WriteThrough(txSnap.dict, transactions, p, q, 0).transactions
                   ELSE raised' = "KeyError" /\ UNCHANGED transactions
    /\ Touch("mutate_transactions_snapshot")
    /\ UNCHANGED <<balances, balSnap, txSnap>>

(* --------------------------- display_balances -------------------------- *)
\* the line display_balances prints for a person with this balance
BalanceLine(balance) ==
    IF balance > 0 THEN "is owed"
    ELSE IF balance < 0 THEN "owes"
    ELSE "is settled up"

display_balances(bal) == [p \in DOMAIN bal |-> BalanceLine(bal[p])]

(* ------------------------- display_transactions ------------------------ *)
\* the (person, payer) pairs the two nested .items() loops visit
Entries(tx) ==
    {e \in Persons \X Persons : e[1] \in DOMAIN tx /\ e[2] \in DOMAIN tx[e[1]]}

\* d[a][b] += x on a defaultdict of defaultdicts
Bump(d, a, b, x) == Put(d, a, Put(Inner(d, a), b, Owed(d, a, b) + x))

AggregateForwardOnly(td, person, payer, amount) ==
    Bump(td, person, payer, amount)

\* lines 98-99 for one entry of self.transactions
Aggregate(td, person, payer, amount) ==
    Bump(Bump(td, person, payer, amount), payer, person, 0 - amount)

RECURSIVE AggregateAll(_, _, _)
AggregateAll(td, tx, entries) ==
    IF entries = {} THEN td
    ELSE LET e == CHOOSE x \in entries : TRUE
         IN  AggregateAll(Aggregate(td, e[1], e[2], tx[e[1]][e[2]]), tx, entries \ {e})

\* the table built by lines 93-99
total_debts(tx) == AggregateAll(EmptyMap, tx, Entries(tx))

\* the lines "<person> owes <payer> <amount>" of lines 103-106 (and again 110-113)
OwesLines(td) ==
    {<<e[1], e[2], td[e[1]][e[2]]>> : e \in {x \in Entries(td) : td[x[1]][x[2]] > 0}}

display_transactions(tx) == OwesLines(total_debts(tx))

(* ----------------------------- behaviours ------------------------------ *)
\* a call the spec calls valid: amount > 0, participants non-empty
ValidExpense ==
    /\ calls < MaxExpenses
    /\ \E payer \in Persons, amount \in Amounts, participants \in NonEmptyLists,
          item \in Items :
          add_expense(payer, amount, participants, item)

\* a call with an empty participants list
EmptyExpense ==
    /\ calls < MaxExpenses
    /\ \E payer \in Persons, amount \in Amounts \cup NonPositiveAmounts, item \in Items :
          add_expense(payer, amount, <<>>, item)

\* a call with amount <= 0 and participants non-empty
NonPositiveExpense ==
    /\ calls < MaxExpenses
    /\ \E payer \in Persons, amount \in NonPositiveAmounts, participants \in NonEmptyLists,
          item \in Items :
          add_expense(payer, amount, participants, item)

SnapExpense ==
    /\ calls < MaxSnapExpenses
    /\ \E payer \in Persons, amount \in Amounts, participants \in NonEmptyLists,
          item \in Items :
          add_expense(payer, amount, participants, item)

\* valid calls only
NextValid == ValidExpense
SpecValid == Init /\ [][NextValid]_vars

\* valid calls and calls with no participants
Next == ValidExpense \/ EmptyExpense
Spec == Init /\ [][Next]_vars

\* every call the code accepts
NextAll == ValidExpense \/ EmptyExpense \/ NonPositiveExpense
SpecAll == Init /\ [][NextAll]_vars

\* a caller that also takes snapshots and changes the dicts it was handed
NextSnap ==
    \/ SnapExpense
    \/ get_balances
    \/ get_transactions
    \/ BalSnapWrite
    \/ BalSnapDelete
    \/ TxSnapWriteTop
    \/ TxSnapDeleteTop
    \/ TxSnapWriteInner
    \/ TxSnapReadInner
SpecSnap == Init /\ [][NextSnap]_vars

(* ============================== claims ================================= *)
RECURSIVE SumValues(_, _)
SumValues(d, keys) ==
    IF keys = {} THEN 0
    ELSE LET k == CHOOSE x \in keys : TRUE
         IN  d[k] + SumValues(d, keys \ {k})

RECURSIVE Count(_, _, _)
Count(p, s, i) ==
    IF i > Len(s) THEN 0
    ELSE (IF s[i] = p THEN 1 ELSE 0) + Count(p, s, i + 1)

Range(s) == {s[i] : i \in DOMAIN s}

\* share of a recorded call, and the number of its participants that are not the payer
Share(call) == call.amount \div Len(call.participants)
NonPayers(call) == Len(call.participants) - Count(call.payer, call.participants, 1)

LastIsAdd == last.op = "add_expense"
LastIsValidAdd == LastIsAdd /\ last.amount > 0 /\ Len(last.participants) > 0
StateUnchanged == balances = before.balances /\ transactions = before.transactions

\* C1: the balances of all persons sum to 0 in every state reached by valid
\* add_expense calls.
Conservation == SumValues(balances, DOMAIN balances) = 0

\* C2: a valid add_expense(payer, amount, participants) moves the payer's balance
\* by amount - k*share (k the participants that are not the payer), every other
\* participant's balance by -share for each time the list names them (once, for a
\* list of distinct persons), leaves every other balance alone and creates
\* entries for the payer and the participants only.
BalanceEffect ==
    LastIsValidAdd =>
        /\ \A p \in Persons :
              Get(balances, p) - Get(before.balances, p) =
                  IF p = last.payer
                  THEN last.amount - NonPayers(last) * Share(last)
                  ELSE 0 - Share(last) * Count(p, last.participants, 1)
        /\ DOMAIN balances =
              DOMAIN before.balances \cup {last.payer} \cup Range(last.participants)

\* C2 witness: on a used accumulator, a payer inside a list of three distinct
\* participants (k = 2), after an expense that did not involve everybody.
BalanceEffectWitness ==
    /\ LastIsValidAdd
    /\ before.balances # EmptyMap
    /\ DOMAIN before.balances # Persons
    /\ last.payer \in Range(last.participants)
    /\ NonPayers(last) = 2
    /\ Cardinality(Range(last.participants)) = 3

\* C3: a balance is positive exactly when the ledger says the person is owed more
\* than they owe, negative exactly when they owe more, zero when the two are equal.
OwedTo(tx, p) == SumValues([q \in Persons |-> Owed(tx, q, p)], Persons)
Owes(tx, p) == SumValues([q \in Persons |-> Owed(tx, p, q)], Persons)
BalanceMeaning ==
    \A p \in Persons :
        BalanceLine(Get(balances, p)) =
            BalanceLine(OwedTo(transactions, p) - Owes(transactions, p))

\* C4: transactions[p][q] is the sum, over the recorded expenses paid by q that
\* name p, of the expense's share (once per time the list names p); a call writes
\* only the entries [p][payer] of its non-payer participants; no [p][p] exists.
RECURSIVE LedgerSum(_, _, _, _)
LedgerSum(calls_, p, q, i) ==
    IF i > Len(calls_) THEN 0
    ELSE (IF calls_[i].payer = q
          THEN Share(calls_[i]) * Count(p, calls_[i].participants, 1)
          ELSE 0) + LedgerSum(calls_, p, q, i + 1)

LedgerAccumulation ==
    /\ \A p \in Persons, q \in Persons :
          p # q => Owed(transactions, p, q) = LedgerSum(log, p, q, 1)
    /\ \A p \in DOMAIN transactions : p \notin DOMAIN transactions[p]
    /\ LastIsValidAdd =>
          /\ Entries(transactions) =
                Entries(before.transactions) \cup
                {<<p, last.payer>> : p \in Range(last.participants) \ {last.payer}}
          /\ \A e \in Entries(before.transactions) :
                e[2] # last.payer =>
                    transactions[e[1]][e[2]] = before.transactions[e[1]][e[2]]

\* C4 witness: two recorded expenses of the same payer that both name p, and an
\* older entry towards another payer that the last call left alone.
LedgerAccumulationWitness ==
    /\ Len(log) = 2
    /\ log[1].payer = "A" /\ log[2].payer = "A"
    /\ "B" \in Range(log[1].participants) /\ "B" \in Range(log[2].participants)
    /\ Share(log[1]) # Share(log[2])
    /\ transactions["B"]["A"] = Share(log[1]) + Share(log[2])

\* C5: display_transactions prints "a owes b x" for exactly the ordered pairs with
\* x = transactions[a][b] - transactions[b][a] > 0 (absent entries read as 0).
NetPairwiseDebts ==
    display_transactions(transactions) =
        {<<e[1], e[2], Owed(transactions, e[1], e[2]) - Owed(transactions, e[2], e[1])>> :
            e \in {x \in Persons \X Persons :
                     Owed(transactions, x[1], x[2]) - Owed(transactions, x[2], x[1]) > 0}}

\* C5 witness: two opposite expenses of equal share between one pair; neither
\* direction is printed.
NetPairwiseDebtsWitness ==
    /\ Len(log) = 2
    /\ Owed(transactions, "A", "B") > 0
    /\ Owed(transactions, "A", "B") = Owed(transactions, "B", "A")
    /\ \A l \in display_transactions(transactions) : {l[1], l[2]} # {"A", "B"}

\* C6: get_balances/get_transactions change nothing, and nothing the caller does
\* to a returned dict changes self.balances or self.transactions.
SnapshotOps == {"get_balances", "get_transactions"}
SnapshotMutations == {"mutate_balances_snapshot", "mutate_transactions_snapshot"}
SnapshotCopySemantics ==
    /\ last.op \in SnapshotOps => StateUnchanged
    /\ last.op = "get_balances" => balSnap.dict = balances
    /\ last.op = "get_transactions" => SnapshotView(txSnap.dict, transactions) = transactions
    /\ last.op \in SnapshotMutations => StateUnchanged

\* C7: add_expense with no participants raises and leaves balances and
\* transactions as they were.
EmptyParticipantsNoEffect ==
    (LastIsAdd /\ Len(last.participants) = 0) =>
        raised = "ZeroDivisionError" /\ StateUnchanged

\* C7 witness: such a call, with a positive amount, on a used accumulator that has
\* no entry for the payer.
EmptyParticipantsNoEffectWitness ==
    /\ LastIsAdd /\ Len(last.participants) = 0
    /\ last.amount > 0
    /\ raised = "ZeroDivisionError"
    /\ balances # EmptyMap
    /\ last.payer \notin DOMAIN balances

\* C8: add_expense with amount <= 0 and some participants raises and leaves
\* balances and transactions as they were.
NonPositiveRejected ==
    (LastIsAdd /\ last.amount <= 0 /\ Len(last.participants) > 0) =>
        raised # "none" /\ StateUnchanged

NoContradictoryLines ==
    LET td == total_debts(transactions)
        lines == OwesLines(td)
    IN  /\ \A a \in DOMAIN td :
              /\ a \notin DOMAIN td[a]
              /\ \A b \in DOMAIN td[a] :
                    b \in DOMAIN td /\ a \in DOMAIN td[b] /\ td[a][b] = 0 - td[b][a]
        /\ \A l \in lines : l[1] # l[2]
        /\ \A l \in lines, m \in lines : ~(l[1] = m[2] /\ l[2] = m[1])

\* C10 witness: both directions of a pair are in the ledger with different
\* amounts, and exactly one line is printed for the pair.
NoContradictoryLinesWitness ==
    /\ Owed(transactions, "A", "B") > Owed(transactions, "B", "A")
    /\ Owed(transactions, "B", "A") > 0
    /\ \E l \in display_transactions(transactions) : l[1] = "A" /\ l[2] = "B"
====
